---- MODULE Spec2Model ----
(***************************************************************************)
(* Model of pt_miniscreen.core.components.stack.Stack: the push/pop        *)
(* controller executed on the caller's thread and the _push_transition /   *)
(* _pop_transition daemon threads it starts.                               *)
(*                                                                         *)
(* Screens are identified by the order in which create_child made them     *)
(* (1, 2, ...).  A list index i of Python (0-based, negative from the end) *)
(* is translated by PyIndex.  width is 0 while the canvas size is unknown. *)
(***************************************************************************)
EXTENDS Integers, Sequences, FiniteSets, TLC

(* ---------------------------- bounds ----------------------------------- *)
\* screens create_child may make in one run
MaxScreens == 3
\* largest `elements` argument given to pop (0 .. MaxElements)
MaxElements == 2
\* the known canvas width, when it is known
MaxWidth == 2
\* threads that may be alive at once before a caller's call is not explored
MaxThreads == 2

(* --------------------------- constants --------------------------------- *)
None == "None"
PUSH == "PUSH"
POP == "POP"
\* the value active_component / active_index return for "no component"
NoComponent == 0

VARIABLES
    stack,              \* state["stack"]: list of screens, bottom first
    x_position,         \* state["x_position"]
    active_transition,  \* state["active_transition"]: None, PUSH or POP
    elements_to_pop,    \* state["elements_to_pop"]
    width,              \* self.width (0: not known)
    cleanup_transition, \* self._cleanup_transition (threading.Event) is set
    threads,            \* the transition threads started and not yet returned
    created,            \* number of create_child calls made so far
    removed,            \* screens given to remove_child, in call order
    log,                \* the last logger.debug message
    cleanup_in_flight,  \* history: cleanup() was called during the current transition
    render              \* the render call in progress on the caller's thread

vars == <<stack, x_position, active_transition, elements_to_pop, width,
          cleanup_transition, threads, created, removed, log, cleanup_in_flight,
          render>>

\* the shared state dictionary self.state
state == <<stack, x_position, active_transition, elements_to_pop>>

(* ---------------------------- helpers ---------------------------------- *)
Min(a, b) == IF a < b THEN a ELSE b

\* s[p] of Python for a list s and an int p: the element, or NoComponent
\* where Python raises IndexError
PyIndex(s, p) ==
    IF p < 0
    THEN IF Len(s) + p >= 0 THEN s[Len(s) + p + 1] ELSE NoComponent
    ELSE IF p < Len(s) THEN s[p + 1] ELSE NoComponent

\* variant of ListPop: the first element taken off
ListPop_Front(s) == SubSeq(s, 2, Len(s))

\* the list s without its last element (list.pop() on a non-empty list)
ListPop(s) == SubSeq(s, 1, Len(s) - 1)

\* the sequence s without its i-th element
RemoveAt(s, i) == SubSeq(s, 1, i - 1) \o SubSeq(s, i + 1, Len(s))

\* the last n elements of s, last first
RECURSIVE TopDown(_, _)
TopDown(s, n) ==
    IF n <= 0 \/ s = <<>> THEN <<>>
    ELSE <<s[Len(s)]>> \o TopDown(ListPop(s), n - 1)

\* utils.transition(distance, duration): the next step of a sequence of
\* positive steps whose sum is the distance, `remaining` of which is left
TransitionSteps(remaining) == 1..remaining

(* ------------------------- derived properties -------------------------- *)
\* Stack.active_component
active_component ==
    IF active_transition = POP
    THEN PyIndex(stack, -1 - elements_to_pop)
    ELSE PyIndex(stack, -1)

\* Stack.is_popping
is_popping == active_transition = POP

\* no render call is in progress
RenderIdle == [pc |-> "idle", w |-> 0, x |-> 0, fg |-> NoComponent, out |-> <<>>]

(* ------------------------------ Init ----------------------------------- *)
Init ==
    /\ stack = <<>>
    /\ x_position = 0
    /\ active_transition = None
    /\ elements_to_pop = 0
    /\ width \in {0, MaxWidth}
    /\ cleanup_transition = FALSE
    /\ threads = <<>>
    /\ created = 0
    /\ removed = <<>>
    /\ log = ""
    /\ cleanup_in_flight = FALSE
    /\ render = RenderIdle

\* a thread object as threading.Thread(target=..., args=(elements,)) starts it
NewThread(target, elements) ==
    [target |-> target, pc |-> "start", elements |-> elements,
     remaining |-> 0, step |-> 0, evicted |-> 0]

(* ----------------------------- cleanup --------------------------------- *)
Cleanup ==
    /\ cleanup_transition' = TRUE
    /\ cleanup_in_flight' = (cleanup_in_flight \/ active_transition # None)
    /\ UNCHANGED <<stack, x_position, active_transition, elements_to_pop,
                   width, threads, created, removed, log>>
    \* the call is made on the thread render runs on
    /\ render.pc = "idle"
    /\ UNCHANGED render

(* ------------------------------- push ---------------------------------- *)
\* variant of PushBusy: the test of line 100 left out
PushBusy_Never == FALSE

\* variant of PushBusy: only a running push transition refuses a push
PushBusy_OnlyPush == active_transition = PUSH

\* push, line 100: a transition is running
PushBusy == active_transition # None

\* variant of PushStack: the new screen put below the others
PushStack_Front == <<created + 1>> \o stack

\* the stack push builds, line 105
PushStack == Append(stack, created + 1)

\* variant of PushStartPosition: the offset of the last transition is kept
PushStartPosition_Stale == x_position

\* the offset an animated push starts from, line 116
PushStartPosition == width

PushIgnored ==
    /\ PushBusy
    /\ log' = "push_ignored"
    /\ UNCHANGED <<stack, x_position, active_transition, elements_to_pop,
                   width, cleanup_transition, threads, created, removed,
                   cleanup_in_flight>>
    \* the call is made on the thread render runs on
    /\ render.pc = "idle"
    /\ UNCHANGED render

PushNoTransition ==
    /\ ~PushBusy
    /\ created < MaxScreens
    /\ created' = created + 1
    /\ stack' = PushStack
    /\ log' = "push_no_transition"
    /\ UNCHANGED <<x_position, active_transition, elements_to_pop, width,
                   cleanup_transition, threads, removed, cleanup_in_flight>>
    \* the call is made on the thread render runs on
    /\ render.pc = "idle"
    /\ UNCHANGED render

PushStart ==
    /\ ~PushBusy
    /\ created < MaxScreens
    /\ Len(threads) < MaxThreads
    /\ created' = created + 1
    /\ active_transition' = PUSH
    /\ x_position' = PushStartPosition
    /\ stack' = PushStack
    /\ log' = "push_start"
    \* line 121; push runs on the caller's thread, as render does, so nothing
    \* observes the state between the update of line 113 and the start
    /\ threads' = Append(threads, NewThread("push", 0))
    /\ cleanup_in_flight' = FALSE
    /\ UNCHANGED <<elements_to_pop, width, cleanup_transition, removed>>
    \* the call is made on the thread render runs on
    /\ render.pc = "idle"
    /\ UNCHANGED render

\* Stack.push(Component, animate)
Push(animate) ==
    \/ PushIgnored
    \/ (~animate /\ PushNoTransition)
    \/ (animate /\ PushStart)

(* --------------------------- _push_transition -------------------------- *)
\* line 62: if self.width
PushTransitionStart(i) ==
    /\ i \in DOMAIN threads
    /\ threads[i].target = "push" /\ threads[i].pc = "start"
    /\ threads' = [threads EXCEPT ![i].pc = IF width # 0 THEN "loop" ELSE "commit",
                                  ![i].remaining = width]
    /\ UNCHANGED <<stack, x_position, active_transition, elements_to_pop,
                   width, cleanup_transition, created, removed, log,
                   cleanup_in_flight>>
    /\ UNCHANGED render

\* variant of IsCancelled: the event is never looked at
IsCancelled_Never == FALSE

\* variant of IsCancelled: the thread returns whether or not the event is set
IsCancelled_Always == TRUE

\* lines 64-65: the cancellation test of one iteration
IsCancelled == cleanup_transition

\* variant of PushTransitionLoop: a cancelled thread still commits
PushTransitionLoop_CancelCommits(i) ==
    /\ i \in DOMAIN threads
    /\ threads[i].target = "push" /\ threads[i].pc = "loop"
    /\ IF threads[i].remaining = 0 \/ IsCancelled
       THEN threads' = [threads EXCEPT ![i].pc = "commit"]
       ELSE \E s \in TransitionSteps(threads[i].remaining) :
               threads' = [threads EXCEPT ![i].pc = "update",
                                          ![i].step = s,
                                          ![i].remaining = @ - s]
    /\ UNCHANGED <<stack, x_position, active_transition, elements_to_pop,
                   width, cleanup_transition, created, removed, log,
                   cleanup_in_flight>>
    /\ UNCHANGED render

\* lines 63-65: the for statement takes the next step, then tests the event
PushTransitionLoop(i) ==
    /\ i \in DOMAIN threads
    /\ threads[i].target = "push" /\ threads[i].pc = "loop"
    /\ IF threads[i].remaining = 0
       THEN threads' = [threads EXCEPT ![i].pc = "commit"]
       ELSE IF IsCancelled
            THEN threads' = RemoveAt(threads, i)
            ELSE \E s \in TransitionSteps(threads[i].remaining) :
                    threads' = [threads EXCEPT ![i].pc = "update",
                                               ![i].step = s,
                                               ![i].remaining = @ - s]
    /\ UNCHANGED <<stack, x_position, active_transition, elements_to_pop,
                   width, cleanup_transition, created, removed, log,
                   cleanup_in_flight>>
    /\ UNCHANGED render

\* lines 67-69
PushTransitionUpdate(i) ==
    /\ i \in DOMAIN threads
    /\ threads[i].target = "push" /\ threads[i].pc = "update"
    /\ x_position' = Min(width, x_position - threads[i].step)
    /\ threads' = [threads EXCEPT ![i].pc = "loop", ![i].step = 0]
    /\ UNCHANGED <<stack, active_transition, elements_to_pop, width,
                   cleanup_transition, created, removed, log,
                   cleanup_in_flight>>
    /\ UNCHANGED render

\* variant of PushCommitTransition: the terminal update keeps the transition
PushCommitTransition_Kept == PUSH

\* line 71: the value the terminal update gives active_transition
PushCommitTransition == None

\* line 71, after which the thread returns
PushTransitionCommit(i) ==
    /\ i \in DOMAIN threads
    /\ threads[i].target = "push" /\ threads[i].pc = "commit"
    /\ active_transition' = PushCommitTransition
    /\ threads' = RemoveAt(threads, i)
    /\ UNCHANGED <<stack, x_position, elements_to_pop, width,
                   cleanup_transition, created, removed, log,
                   cleanup_in_flight>>
    /\ UNCHANGED render

(* -------------------------------- pop ---------------------------------- *)
\* pop, line 124: a transition is running
PopBusy == active_transition # None

\* pop, line 128
PopEmpty == Len(stack) = 0

\* variant of PopTooMany: the depth test off by one
PopTooMany_OffByOne(elements) == Len(stack) < elements - 1

\* pop, line 132
PopTooMany(elements) == Len(stack) < elements

\* lines 140-142: the copy of the stack after `elements` stack.pop() calls
PopStack(elements) == SubSeq(stack, 1, Len(stack) - elements)

\* variant of PopRemoved: the screens torn down bottom first
PopRemoved_BottomUp(elements) ==
    SubSeq(stack, Len(stack) - elements + 1, Len(stack))

\* lines 141-142: the screens given to remove_child, in call order
PopRemoved(elements) == TopDown(stack, elements)

PopIgnored ==
    /\ PopBusy
    /\ log' = "pop_ignored"
    /\ UNCHANGED <<stack, x_position, active_transition, elements_to_pop,
                   width, cleanup_transition, threads, created, removed,
                   cleanup_in_flight>>
    \* the call is made on the thread render runs on
    /\ render.pc = "idle"
    /\ UNCHANGED render

PopIgnoredEmpty ==
    /\ ~PopBusy
    /\ PopEmpty
    /\ log' = "pop_empty"
    /\ UNCHANGED <<stack, x_position, active_transition, elements_to_pop,
                   width, cleanup_transition, threads, created, removed,
                   cleanup_in_flight>>
    \* the call is made on the thread render runs on
    /\ render.pc = "idle"
    /\ UNCHANGED render

PopIgnoredTooMany(elements) ==
    /\ ~PopBusy
    /\ ~PopEmpty
    /\ PopTooMany(elements)
    /\ log' = "pop_too_many"
    /\ UNCHANGED <<stack, x_position, active_transition, elements_to_pop,
                   width, cleanup_transition, threads, created, removed,
                   cleanup_in_flight>>
    \* the call is made on the thread render runs on
    /\ render.pc = "idle"
    /\ UNCHANGED render

\* pop, lines 124-136: the call is accepted
PopAccepted(elements) == ~PopBusy /\ ~PopEmpty /\ ~PopTooMany(elements)

PopNoTransition(elements) ==
    /\ PopAccepted(elements)
    /\ stack' = PopStack(elements)
    /\ removed' = removed \o PopRemoved(elements)
    /\ log' = "pop_no_transition"
    /\ UNCHANGED <<x_position, active_transition, elements_to_pop, width,
                   cleanup_transition, threads, created, cleanup_in_flight>>
    \* the call is made on the thread render runs on
    /\ render.pc = "idle"
    /\ UNCHANGED render

PopStart(elements) ==
    /\ PopAccepted(elements)
    /\ Len(threads) < MaxThreads
    /\ active_transition' = POP
    /\ elements_to_pop' = elements
    /\ x_position' = 0
    /\ log' = "pop_start"
    /\ threads' = Append(threads, NewThread("pop", elements))
    /\ cleanup_in_flight' = FALSE
    /\ UNCHANGED <<stack, width, cleanup_transition, created, removed>>
    \* the call is made on the thread render runs on
    /\ render.pc = "idle"
    /\ UNCHANGED render

\* Stack.pop(animate, elements)
Pop(animate, elements) ==
    \/ PopIgnored
    \/ PopIgnoredEmpty
    \/ PopIgnoredTooMany(elements)
    \/ (~animate /\ PopNoTransition(elements))
    \/ (animate /\ PopStart(elements))

(* --------------------------- _pop_transition --------------------------- *)
\* variant of EvictPc: the eviction loop left out
EvictPc_Skip(t) == "commit"

\* lines 89-90: where the thread goes once the animation loop is over
EvictPc(t) == IF t.evicted < t.elements THEN "evict" ELSE "commit"

\* line 75: if self.width
PopTransitionStart(i) ==
    /\ i \in DOMAIN threads
    /\ threads[i].target = "pop" /\ threads[i].pc = "start"
    /\ threads' = [threads EXCEPT
                     ![i].pc = IF width # 0 THEN "loop" ELSE EvictPc(threads[i]),
                     ![i].remaining = width * threads[i].elements]
    /\ UNCHANGED <<stack, x_position, active_transition, elements_to_pop,
                   width, cleanup_transition, created, removed, log,
                   cleanup_in_flight>>
    /\ UNCHANGED render

\* lines 76-78: the for statement takes the next step, then tests the event
PopTransitionLoop(i) ==
    /\ i \in DOMAIN threads
    /\ threads[i].target = "pop" /\ threads[i].pc = "loop"
    /\ IF threads[i].remaining = 0
       THEN threads' = [threads EXCEPT ![i].pc = EvictPc(threads[i])]
       ELSE IF IsCancelled
            THEN threads' = RemoveAt(threads, i)
            ELSE \E s \in TransitionSteps(threads[i].remaining) :
                    threads' = [threads EXCEPT ![i].pc = "update",
                                               ![i].step = s,
                                               ![i].remaining = @ - s]
    /\ UNCHANGED <<stack, x_position, active_transition, elements_to_pop,
                   width, cleanup_transition, created, removed, log,
                   cleanup_in_flight>>
    /\ UNCHANGED render

\* variant of PopTransitionUpdate: the step subtracted, as in a push
PopTransitionUpdate_Minus(i) ==
    /\ i \in DOMAIN threads
    /\ threads[i].target = "pop" /\ threads[i].pc = "update"
    /\ x_position' = Min(width * threads[i].elements, x_position - threads[i].step)
    /\ threads' = [threads EXCEPT ![i].pc = "loop", ![i].step = 0]
    /\ UNCHANGED <<stack, active_transition, elements_to_pop, width,
                   cleanup_transition, created, removed, log,
                   cleanup_in_flight>>
    /\ UNCHANGED render

\* lines 80-86
PopTransitionUpdate(i) ==
    /\ i \in DOMAIN threads
    /\ threads[i].target = "pop" /\ threads[i].pc = "update"
    /\ x_position' = Min(width * threads[i].elements, x_position + threads[i].step)
    /\ threads' = [threads EXCEPT ![i].pc = "loop", ![i].step = 0]
    /\ UNCHANGED <<stack, active_transition, elements_to_pop, width,
                   cleanup_transition, created, removed, log,
                   cleanup_in_flight>>
    /\ UNCHANGED render

\* lines 88-90: one iteration; stack is state["stack"] itself, so stack.pop()
\* shortens the shared list at once.  On an empty list stack.pop() raises
\* IndexError, which ends the thread.
PopTransitionEvict(i) ==
    /\ i \in DOMAIN threads
    /\ threads[i].target = "pop" /\ threads[i].pc = "evict"
    /\ IF stack = <<>>
       THEN /\ threads' = RemoveAt(threads, i)
            /\ UNCHANGED <<stack, removed>>
       ELSE /\ stack' = ListPop(stack)
            /\ removed' = Append(removed, stack[Len(stack)])
            /\ threads' = [threads EXCEPT
                             ![i].evicted = @ + 1,
                             ![i].pc = EvictPc([threads[i] EXCEPT !.evicted = @ + 1])]
    /\ UNCHANGED <<x_position, active_transition, elements_to_pop, width,
                   cleanup_transition, created, log, cleanup_in_flight>>
    /\ UNCHANGED render

\* lines 91-93, after which the thread returns
PopTransitionCommit(i) ==
    /\ i \in DOMAIN threads
    /\ threads[i].target = "pop" /\ threads[i].pc = "commit"
    /\ active_transition' = None
    /\ elements_to_pop' = 0
    /\ threads' = RemoveAt(threads, i)
    /\ UNCHANGED <<stack, x_position, width, cleanup_transition, created,
                   removed, log, cleanup_in_flight>>
    /\ UNCHANGED render

(* ------------------------------ render --------------------------------- *)
\* A frame is its sequence of columns, left to right; a column <<c, j>> is
\* column j of what screen c draws, <<0, j>> column j of the canvas given to
\* render, <<-1, j>> a column crop adds beyond the frame it crops.

\* the widths image.size[0] of the canvases given to render
CanvasWidths == 1..MaxWidth

\* the image given to render, image.size[0] = w
Canvas(w) == [j \in 1..w |-> <<0, j>>]

\* component.render(image): the frame screen c draws for that canvas
ScreenFrame(c, w) == [j \in 1..w |-> <<c, j>>]

\* variant of RightBound: the offset itself taken as the bound
RightBound_Offset(w, x) == IF x < 0 THEN 0 ELSE x

\* lines 172-176
RightBound(w, x) == IF w - x < 0 THEN 0 ELSE w - x

\* layer.crop((0, 0, right_bound, h)), lines 177-178
Crop(f, right_bound) ==
    [j \in 1..right_bound |-> IF j <= Len(f) THEN f[j] ELSE <<-1, j>>]

\* base.paste(f, (left, 0)), lines 182-185 and 191-194
Paste(base, f, left) ==
    [j \in 1..Len(base) |->
        IF j > left /\ j - left <= Len(f) THEN f[j - left] ELSE base[j]]

\* lines 171-194: the frame of a running transition, for a foreground, the
\* offset read and the layer the foreground is pasted on
Composite(w, x, foreground, base) ==
    LET cropped == Crop(ScreenFrame(foreground, w), RightBound(w, x))
    IN  Paste(base, cropped, w - Len(cropped))

\* Stack.render(image) run on one state (s, t, x) with image.size[0] = w
RenderFrame(s, t, x, w) ==
    IF Len(s) = 0 THEN Canvas(w)
    ELSE IF t = None THEN ScreenFrame(PyIndex(s, -1), w)
    ELSE IF Len(s) = 1 THEN Composite(w, x, PyIndex(s, -1), Canvas(w))
    ELSE Composite(w, x, PyIndex(s, -1), ScreenFrame(PyIndex(s, -2), w))

\* what render leaves alone: everything but its own locals
RenderFrameVars == <<stack, x_position, active_transition, elements_to_pop,
                     width, cleanup_transition, threads, created, removed,
                     log, cleanup_in_flight>>

\* lines 159-161: the call, with the length test of line 160
RenderCall ==
    /\ render.pc = "idle"
    /\ \E w \in CanvasWidths :
          render' = IF Len(stack) = 0
                    THEN [RenderIdle EXCEPT !.pc = "return", !.w = w,
                                            !.out = Canvas(w)]
                    ELSE [RenderIdle EXCEPT !.pc = "x_position", !.w = w]
    /\ UNCHANGED RenderFrameVars

\* line 163
RenderReadPosition ==
    /\ render.pc = "x_position"
    /\ render' = [render EXCEPT !.pc = "foreground", !.x = x_position]
    /\ UNCHANGED RenderFrameVars

\* lines 164-165: state["stack"][-1] raises IndexError on an empty list
RenderReadForeground ==
    /\ render.pc = "foreground"
    /\ render' = IF PyIndex(stack, -1) = NoComponent
                 THEN [render EXCEPT !.pc = "raised"]
                 ELSE [render EXCEPT !.pc = "active_transition",
                                     !.fg = PyIndex(stack, -1)]
    /\ UNCHANGED RenderFrameVars

\* lines 168-169
RenderReadTransition ==
    /\ render.pc = "active_transition"
    /\ render' = IF active_transition = None
                 THEN [render EXCEPT !.pc = "return",
                                     !.out = ScreenFrame(render.fg, render.w)]
                 ELSE [render EXCEPT !.pc = "length"]
    /\ UNCHANGED RenderFrameVars

\* lines 171-186: the crop, and the length test of line 181
RenderReadLength ==
    /\ render.pc = "length"
    /\ render' = IF Len(stack) = 1
                 THEN [render EXCEPT
                         !.pc = "return",
                         !.out = Composite(render.w, render.x, render.fg,
                                           Canvas(render.w))]
                 ELSE [render EXCEPT !.pc = "background"]
    /\ UNCHANGED RenderFrameVars

\* lines 189-196: state["stack"][-2] raises IndexError on a shorter list
RenderReadBackground ==
    /\ render.pc = "background"
    /\ render' = IF PyIndex(stack, -2) = NoComponent
                 THEN [render EXCEPT !.pc = "raised"]
                 ELSE [render EXCEPT
                         !.pc = "return",
                         !.out = Composite(render.w, render.x, render.fg,
                                           ScreenFrame(PyIndex(stack, -2),
                                                       render.w))]
    /\ UNCHANGED RenderFrameVars

\* the call is over: the frame is returned or the IndexError reaches the caller
RenderReturn ==
    /\ render.pc \in {"return", "raised"}
    /\ render' = RenderIdle
    /\ UNCHANGED RenderFrameVars

\* Stack.render(image), statement by statement
Render ==
    \/ RenderCall
    \/ RenderReadPosition
    \/ RenderReadForeground
    \/ RenderReadTransition
    \/ RenderReadLength
    \/ RenderReadBackground
    \/ RenderReturn

(* ---------------------------- active_index ------------------------------ *)
\* the value active_index returns for "no index"
NoIndex == -1

\* s.index(c) of Python, 0-based, or NoIndex where Python raises ValueError
ListIndex(s, c) ==
    IF \E i \in 1..Len(s) : s[i] = c
    THEN (CHOOSE i \in 1..Len(s) :
            s[i] = c /\ \A k \in 1..(i - 1) : s[k] # c) - 1
    ELSE NoIndex

\* variant of active_index: the index of the top of the stack
active_index_Top == Len(stack) - 1

\* Stack.active_index
active_index == ListIndex(stack, active_component)

(* ------------------------------ system --------------------------------- *)
\* one step of a transition thread
Driver ==
    \E i \in 1..MaxThreads :
        \/ PushTransitionStart(i)
        \/ PushTransitionLoop(i)
        \/ PushTransitionUpdate(i)
        \/ PushTransitionCommit(i)
        \/ PopTransitionStart(i)
        \/ PopTransitionLoop(i)
        \/ PopTransitionUpdate(i)
        \/ PopTransitionEvict(i)
        \/ PopTransitionCommit(i)

\* one call made from the caller's thread
Caller ==
    \/ \E animate \in BOOLEAN : Push(animate)
    \/ \E animate \in BOOLEAN, elements \in 0..MaxElements : Pop(animate, elements)
    \/ Cleanup
    \/ Render

Next == Caller \/ Driver

Spec == Init /\ [][Next]_vars

\* the interpreter schedules every started thread: a transition thread that
\* can take a step eventually takes it
FairSpec == Spec /\ WF_vars(Driver)

TypeOK ==
    /\ active_transition \in {None, PUSH, POP}
    /\ x_position \in Int
    /\ elements_to_pop \in 0..MaxElements
    /\ Len(stack) <= MaxScreens
    /\ created \in 0..MaxScreens

(* ------------------------------ claims --------------------------------- *)
\* the parts of the model a caller or a renderer can observe changing:
\* the shared state, the threads and the screens made and torn down
Observable == <<stack, x_position, active_transition, elements_to_pop,
                threads, created, removed>>

\* C1: at any time at most one transition thread has been started and has
\* not yet returned, whatever push, pop and cleanup calls were made
C1_AtMostOneDriver == Len(threads) <= 1

\* a push was refused while a transition thread was running
C1_Witness ==
    /\ Len(threads) = 1
    /\ threads[1].pc = "update"
    /\ log \in {"push_ignored", "pop_ignored"}

\* C2 as stated: whenever active_transition is not None exactly one
\* transition thread is running
C2_Original == active_transition # None => Len(threads) = 1

\* C2 amended: whenever active_transition is not None exactly one transition
\* thread is running, unless cleanup() has been called and the thread has
\* returned on seeing it, and then none is running
C2_Amended ==
    active_transition # None =>
        \/ Len(threads) = 1
        \/ (Len(threads) = 0 /\ cleanup_transition)

\* a thread is still animating after cleanup() was called
C2_Witness ==
    /\ active_transition # None
    /\ cleanup_transition
    /\ Len(threads) = 1
    /\ threads[1].pc = "update"

\* C3: once cleanup() has been called during an animated pop of a stack of
\* two or more screens with known width, no step changes the stack, the
\* offset, the transition state or elements_to_pop, or tears a screen down
C3_FrozenAfterCleanup ==
    [][(/\ cleanup_in_flight
        /\ active_transition = POP
        /\ elements_to_pop >= 1
        /\ width # 0
        /\ threads # <<>>
        /\ Len(stack) + threads[1].evicted >= 2)
       => UNCHANGED <<stack, x_position, active_transition, elements_to_pop,
                      removed>>]_vars

\* C4 as stated: a transition that is started ends with active_transition
\* None unless cleanup() is called while it is in flight
C4_Original ==
    (active_transition # None /\ ~cleanup_in_flight)
        ~> (active_transition = None \/ cleanup_in_flight)

\* C4 amended: a transition that is started ends with active_transition None
\* unless cleanup() was called before it started or while it is in flight;
\* when an animated push ends, the screen it made is the top of the stack
C4_Amended ==
    /\ (active_transition # None /\ ~cleanup_transition)
          ~> (active_transition = None \/ cleanup_transition)
    /\ [][(active_transition = PUSH /\ active_transition' = None)
            => (stack' = stack /\ PyIndex(stack', -1) = created)]_vars

\* an animated push with known width has run to its end
C4_Witness ==
    /\ log = "push_start"
    /\ active_transition = None
    /\ width # 0
    /\ x_position = 0
    /\ ~cleanup_transition

\* evictions the running pop thread has still to make
PendingEvictions ==
    IF threads # <<>> /\ threads[1].target = "pop"
    THEN elements_to_pop - threads[1].evicted
    ELSE elements_to_pop

\* the screen C5 names: none on an empty stack, the top outside a pop, and
\* during a pop the screen that is the top once the pop has committed
C5_Expected ==
    IF stack = <<>> THEN NoComponent
    ELSE IF active_transition # POP THEN stack[Len(stack)]
    ELSE IF Len(stack) > PendingEvictions
         THEN stack[Len(stack) - PendingEvictions]
         ELSE NoComponent

\* C5: in every state active_component is the screen C5 names
C5_ActiveComponent == active_component = C5_Expected

\* C6: a push made while active_transition is not None changes nothing
C6_PushWhileBusy ==
    [][(active_transition # None /\ \E animate \in BOOLEAN : Push(animate))
       => UNCHANGED Observable]_vars

\* a push was refused during a pop transition
C6_Witness ==
    /\ log = "push_ignored"
    /\ active_transition = POP
    /\ Len(threads) = 1

\* C7: a pop made while active_transition is not None, on an empty stack or
\* for more screens than the stack holds changes nothing, animated or not
C7_PopRejected ==
    [][\A animate \in BOOLEAN, elements \in 0..MaxElements :
         (/\ \/ active_transition # None
             \/ Len(stack) = 0
             \/ elements > Len(stack)
          /\ Pop(animate, elements))
         => UNCHANGED Observable]_vars

\* a pop for more screens than a non-empty stack holds was refused
C7_Witness ==
    /\ log = "pop_too_many"
    /\ Len(stack) = 1
    /\ active_transition = None

\* C8: as long as nothing was popped, the stack holds the screens pushed, in
\* push order, and with no transition running the active screen is the last
\* one pushed
C8_PushOrder ==
    (removed = <<>> /\ ~is_popping) =>
        /\ Len(stack) = created
        /\ \A i \in 1..created : stack[i] = i
        /\ (active_transition = None /\ created > 0
              => active_component = created)

\* two or more screens were pushed, the last with a transition that is over
C8_Witness ==
    /\ removed = <<>>
    /\ created >= 2
    /\ Len(stack) = created
    /\ log = "push_start"
    /\ active_transition = None

\* C9: an accepted animated push sets, in one step, active_transition to
\* PUSH and the offset to width (0 when unknown) and puts the new screen on
\* top of the unchanged earlier ones; an accepted push without animation
\* appends the screen and leaves the rest of the state and the threads alone
C9_PushEffect ==
    [][/\ (active_transition = None /\ Push(TRUE)) =>
            /\ active_transition' = PUSH
            /\ x_position' = (IF width # 0 THEN width ELSE 0)
            /\ Len(stack') = Len(stack) + 1
            /\ SubSeq(stack', 1, Len(stack)) = stack
            /\ stack'[Len(stack')] = created'
            /\ created' = created + 1
            /\ Len(threads') = Len(threads) + 1
       /\ (active_transition = None /\ Push(FALSE)) =>
            /\ stack' = Append(stack, created')
            /\ created' = created + 1
            /\ active_transition' = None
            /\ UNCHANGED <<x_position, elements_to_pop, threads>>]_vars

\* an animated push onto a non-empty stack has just been accepted
C9_Witness ==
    /\ log = "push_start"
    /\ active_transition = PUSH
    /\ width # 0
    /\ x_position = width
    /\ Len(stack) >= 2
    /\ Len(threads) = 1
    /\ threads[1].pc = "start"

\* C10: an accepted pop without animation removes the top `elements`
\* screens at once, gives each to remove_child once, top first, keeps the
\* others in order, leaves active_transition None and elements_to_pop 0 and
\* starts no thread
C10_PopNoTransition ==
    [][\A elements \in 0..MaxElements :
         (/\ active_transition = None
          /\ Len(stack) > 0
          /\ elements <= Len(stack)
          /\ Pop(FALSE, elements))
         => /\ stack' = SubSeq(stack, 1, Len(stack) - elements)
            /\ removed' = removed \o
                 [i \in 1..elements |-> stack[Len(stack) + 1 - i]]
            /\ active_transition' = None
            /\ elements_to_pop' = 0
            /\ threads' = <<>>
            /\ threads = <<>>]_vars

\* two screens were popped at once without animation
C10_Witness ==
    /\ log = "pop_no_transition"
    /\ Len(removed) >= 2
    /\ removed[Len(removed)] < removed[Len(removed) - 1]
    /\ Len(stack) >= 1
    /\ active_transition = None

\* C16: no render call ends in a raised error, whatever a transition thread
\* does between its reads of the shared state
C16_RenderNeverFaults == render.pc # "raised"

\* the frame C11 names for a canvas of width w
C11_Expected(w) ==
    LET n == Len(stack)
        keep == IF w - x_position > 0 THEN w - x_position ELSE 0
    IN  IF n = 0 THEN [j \in 1..w |-> <<0, j>>]
        ELSE IF active_transition = None THEN [j \in 1..w |-> <<stack[n], j>>]
        ELSE [j \in 1..w |->
                IF j > w - keep THEN <<stack[n], j - (w - keep)>>
                ELSE IF n = 1 THEN <<0, j>>
                ELSE <<stack[n - 1], j>>]

\* C11: render returns the canvas on an empty stack, the top screen's frame
\* with no transition, and otherwise the leftmost max(0, w - offset) columns
\* of the top screen's frame right-aligned on the canvas (one screen) or on
\* the frame of the screen below the top (two or more)
C11_Render ==
    \A w \in CanvasWidths :
        RenderFrame(stack, active_transition, x_position, w) = C11_Expected(w)

\* a transition over two or more screens with the offset beyond the canvas
C11_Witness ==
    /\ active_transition # None
    /\ Len(stack) >= 2
    /\ x_position > MaxWidth

\* C12: active_index is absent exactly when active_component is, and
\* otherwise is where active_component is in the stack; it does not change
\* when the shared state does not
C12_ActiveIndex ==
    /\ [](/\ (active_index = NoIndex) <=> (active_component = NoComponent)
          /\ active_index # NoIndex =>
                /\ active_index \in 0..(Len(stack) - 1)
                /\ stack[active_index + 1] = active_component)
    /\ [][UNCHANGED state => active_index' = active_index]_vars

\* during a pop the active screen is not the top and has its own index
C12_Witness ==
    /\ active_transition = POP
    /\ Len(stack) = 3
    /\ elements_to_pop = 1
    /\ active_index = 1

\* a _pop_transition thread is running
PopThread == threads # <<>> /\ threads[1].target = "pop"

\* screens the running _pop_transition thread has taken off the stack
Evicted == IF PopThread THEN threads[1].evicted ELSE 0

\* the stack with the screens the running _pop_transition thread has taken
\* off put back: the last Evicted entries of removed, last first
PopOrigin == stack \o [j \in 1..Evicted |-> removed[Len(removed) + 1 - j]]

\* C13: the step in which a thread sees the event set ends the thread and
\* changes nothing else; with active_transition left not None and no thread,
\* no later call changes anything
C13_CancelNoCommit ==
    /\ [][(/\ threads # <<>>
           /\ threads[1].pc = "loop"
           /\ threads[1].remaining > 0
           /\ cleanup_transition
           /\ threads' # threads)
          => (threads' = <<>> /\ UNCHANGED <<state, created, removed>>)]_vars
    /\ [][(active_transition # None /\ threads = <<>>)
          => UNCHANGED Observable]_vars

\* a push was cancelled half way and a later push was refused
C13_Witness ==
    /\ active_transition = PUSH
    /\ threads = <<>>
    /\ x_position = 1
    /\ stack[Len(stack)] = created
    /\ log = "push_ignored"

\* C14: an animated pop that completes has removed the `elements` screens
\* that were on top when it was called, torn each down once, top first, and
\* kept the others in order, and ends with active_transition None and
\* elements_to_pop 0; no screen is ever torn down twice, and none on the
\* stack has been torn down
C14_AnimatedPop ==
    /\ [](/\ \A i, j \in 1..Len(removed) : removed[i] = removed[j] => i = j
          /\ \A i \in 1..Len(stack), j \in 1..Len(removed) : stack[i] # removed[j])
    /\ [](PopThread =>
            /\ threads[1].elements = elements_to_pop
            /\ threads[1].evicted <= threads[1].elements
            /\ threads[1].pc = "commit" => threads[1].evicted = threads[1].elements
            /\ threads[1].pc \in {"start", "loop", "update"} => threads[1].evicted = 0)
    /\ [][(~PopThread /\ PopThread') => (PopOrigin' = stack /\ removed' = removed)]_vars
    /\ [][(PopThread /\ PopThread') => PopOrigin' = PopOrigin]_vars
    /\ [][(PopThread /\ threads[1].pc = "commit" /\ threads' = <<>>)
          => /\ stack' = SubSeq(PopOrigin, 1, Len(PopOrigin) - elements_to_pop)
             /\ removed' = removed
             /\ active_transition' = None
             /\ elements_to_pop' = 0]_vars

\* an animated pop of two screens with known width has completed
C14_Witness ==
    /\ log = "pop_start"
    /\ active_transition = None
    /\ threads = <<>>
    /\ width # 0
    /\ x_position = 2 * width
    /\ Len(removed) >= 2
    /\ Len(stack) >= 1

\* C15: the offset is within 0..width during a push and within
\* 0..width * elements_to_pop during a pop, and within one transition it
\* only falls (push) or only rises (pop)
C15_OffsetBounds ==
    /\ [](active_transition = PUSH => (0 <= x_position /\ x_position <= width))
    /\ [](active_transition = POP =>
            (0 <= x_position /\ x_position <= width * elements_to_pop))
    /\ [][(active_transition = PUSH /\ active_transition' = PUSH)
          => x_position' <= x_position]_vars
    /\ [][(active_transition = POP /\ active_transition' = POP)
          => x_position' >= x_position]_vars

\* a pop of two screens has slid the whole distance
C15_Witness ==
    /\ active_transition = POP
    /\ width # 0
    /\ elements_to_pop = 2
    /\ x_position = width * elements_to_pop
    /\ threads # <<>>

\* C17: once cleanup() has been called a running thread ends, and no thread
\* goes on to an offset update it had not already begun: the event is tested
\* before each update
C17_CancelLatency ==
    /\ (cleanup_transition /\ threads # <<>>) ~> (threads = <<>>)
    /\ [][(cleanup_transition /\ threads' # <<>> /\ threads'[1].pc = "update")
          => (threads # <<>> /\ threads[1].pc = "update")]_vars

\* cleanup() was called during an animation, which then stopped half way
C17_Witness ==
    /\ cleanup_in_flight
    /\ threads = <<>>
    /\ active_transition # None
    /\ width # 0
    /\ x_position = 1

\* C18: with width 0 a transition thread updates no offset and commits
\* whatever cleanup() did, and stack, active_transition and elements_to_pop
\* end as after the same call without animation
C18_UnknownWidth ==
    /\ [](width = 0 => \A i \in DOMAIN threads : threads[i].pc # "update")
    /\ [][(width = 0 /\ threads # <<>>) => x_position' = x_position]_vars
    /\ (width = 0 /\ active_transition # None) ~> (active_transition = None)
    /\ [][(width = 0 /\ active_transition = None /\ Push(TRUE))
          => (stack' = Append(stack, created + 1) /\ removed' = removed
              /\ elements_to_pop' = elements_to_pop)]_vars
    /\ [][(width = 0 /\ active_transition = PUSH)
          => (stack' = stack /\ removed' = removed
              /\ elements_to_pop' = elements_to_pop)]_vars
    /\ [][(width = 0 /\ ~PopThread /\ PopThread') => PopOrigin' = stack]_vars
    /\ [][(width = 0 /\ PopThread /\ PopThread') => PopOrigin' = PopOrigin]_vars
    /\ [][(width = 0 /\ PopThread /\ threads' = <<>>)
          => /\ stack' = SubSeq(PopOrigin, 1, Len(PopOrigin) - elements_to_pop)
             /\ active_transition' = None
             /\ elements_to_pop' = 0]_vars

\* an animated pop with unknown width has committed
C18_Witness ==
    /\ width = 0
    /\ log = "pop_start"
    /\ active_transition = None
    /\ Len(removed) >= 1
    /\ Len(stack) >= 1

\* C19: the stack changes only in a call made with no transition running or
\* in the eviction that ends a pop thread; an accepted animated pop call
\* leaves it alone, an offset update changes only the offset, and a screen
\* leaves it only in that eviction or in a pop without animation
C19_StackFrame ==
    /\ [][stack' # stack =>
            \/ (active_transition = None /\ threads = <<>>)
            \/ (active_transition = POP /\ PopThread /\ threads[1].pc = "evict")]_vars
    /\ [][Len(stack') < Len(stack) =>
            \/ (active_transition = None /\ log' = "pop_no_transition")
            \/ (active_transition = POP /\ PopThread /\ threads[1].pc = "evict")]_vars
    /\ [][(active_transition = None /\ active_transition' = POP)
          => stack' = stack]_vars
    /\ [][(threads # <<>> /\ threads[1].pc = "update" /\ threads' # threads)
          => UNCHANGED <<stack, active_transition, elements_to_pop, removed>>]_vars

\* a push was refused in the middle of a pop animation over three screens
C19_Witness ==
    /\ active_transition = POP
    /\ PopThread
    /\ threads[1].pc = "update"
    /\ Len(stack) = 3
    /\ log = "push_ignored"

\* C20: the frame render composes at the end of the slide, before the
\* commit, is the whole frame of the active screen for a pop and the whole
\* frame of the pushed screen for a push
C20_FinalFrame ==
    /\ (/\ active_transition = POP
        /\ width # 0
        /\ elements_to_pop >= 1
        /\ Len(stack) > elements_to_pop
        /\ Evicted = 0
        /\ x_position = width * elements_to_pop)
       => RenderFrame(stack, active_transition, x_position, width)
            = ScreenFrame(active_component, width)
    /\ (active_transition = PUSH /\ width # 0 /\ x_position = 0)
       => RenderFrame(stack, active_transition, x_position, width)
            = ScreenFrame(stack[Len(stack)], width)

====
